---- MODULE Spec2Model ----
(***************************************************************************)
(* Model of the simulated stock trader (src/program/trade_stock.py) and of *)
(* the signal classification rules it is specified against                 *)
(* (src/rules/signal_classification_rules.py).                             *)
(*                                                                         *)
(* Money is counted in cents: every money column of the database is        *)
(* DECIMAL(x,2).  Fetched prices are taken to have at most two decimals.   *)
(* Strings are sequences of characters; a Chinese character is written as  *)
(* its pinyin syllable ("kan", "zhang" = bullish, "kan", "die" = bearish), *)
(* the full-width comma as ",".                                            *)
(***************************************************************************)
EXTENDS Integers, Sequences, FiniteSets, TLC

\* ------------------------------------------------------------------------
\* Bounds of the model
\* ------------------------------------------------------------------------
\* rows of transaction_history
MaxTx == 4
\* bullish and bearish rows per symbol in one cycle: two symbols; one symbol
\* (more bullish than 3 bearish rows must fit); the cash runs
MaxCount == 2
MaxCountSell == 4
MaxCountCash == 2
\* runs of run_trading_cycle; more of them where the price has to move
\* between a buy and the next one
MaxCycles == 2
MaxCyclesCash == 3
\* hours: the program is started at 0 and again TickHours later
MaxClock == 25
TickHours == 25

Symbols == {"A", "B"}

\* ------------------------------------------------------------------------
\* Program constants
\* ------------------------------------------------------------------------
INITIAL_CASH == 100000
CentsPerUnit == 100
BUY_RATIO_NUM == 1
BUY_RATIO_DEN == 10
HOLD_HOURS_LIMIT == 24
FILE_TIMEOUT_MINUTES == 20

\* get_current_price: None (no quote, or an exception) is NoPrice; a quote
\* is a positive price in cents.
NoPrice == 0
PriceLow == 100
PriceHigh == 10000
PriceMid == 5000
PriceHuge == 2000000
Prices == {PriceLow, PriceMid, PriceHigh}
PriceOpts == Prices \cup {NoPrice}

\* ------------------------------------------------------------------------
\* Signal labels
\* ------------------------------------------------------------------------
OI1 == <<"duo", "tou", "mai3", " ", "C", "a", "l", "l", ",", "kan", "zhang">>
OI2 == <<"kong", "tou", "mai4", " ", "C", "a", "l", "l", ",", "kan", "die", "/", "kan", "bu4", "zhang">>
OI3 == <<"kong", "tou", "ping", "cang", " ", "C", "a", "l", "l", ",", "hui", "bu3", "xin", "hao", ",", "kan", "zhang">>
OI4 == <<"duo", "tou", "ping", "cang", " ", "C", "a", "l", "l", ",", "jian", "cang", ",", "kan", "zhang", "jian", "ruo">>
OI5 == <<"duo", "tou", "mai3", " ", "P", "u", "t", ",", "kan", "die">>
OI6 == <<"kong", "tou", "mai4", " ", "P", "u", "t", ",", "kan", "zhang", "/", "kan", "bu4", "die">>
OI7 == <<"kong", "tou", "ping", "cang", " ", "P", "u", "t", ",", "hui", "bu3", ",", "kan", "die", "xin", "hao", "jian", "ruo">>
OI8 == <<"duo", "tou", "ping", "cang", " ", "P", "u", "t", ",", "jian", "cang", ",", "kan", "die", "jian", "ruo">>
VOL1 == <<"mai3", " ", "C", "a", "l", "l", ",", "kan", "zhang">>
VOL2 == <<"mai4", " ", "C", "a", "l", "l", ",", "kan", "kong", "/", "jia", "cha", "dui", "chong">>
VOL3 == <<"mai3", " ", "C", "a", "l", "l", "ping", "cang", "/", "zuo", "bo", "dong", "lv", "jiao", "yi">>
VOL4 == <<"mai4", " ", "C", "a", "l", "l", ",", "kan", "die">>
VOL5 == <<"mai3", " ", "P", "u", "t", ",", "kan", "die">>
VOL6 == <<"mai4", " ", "P", "u", "t", ",", "kan", "zhang", "/", "dui", "chong">>
VOL7 == <<"mai3", " ", "P", "u", "t", "ping", "cang", "/", "zuo", "bo", "dong", "lv", "jiao", "yi">>
VOL8 == <<"mai4", " ", "P", "u", "t", ",", "kan", "zhang">>
EXCL1 == <<"kong", "tou", "ping", "cang", "P", "u", "t", ",", "hui", "bu3", ",", "kan", "die", "xin", "hao", "jian", "ruo">>
EXCL2 == <<"mai3", "C", "a", "l", "l", "ping", "cang", "/", "zuo", "bo", "dong", "lv", "jiao", "yi">>
EXCL3 == <<"mai3", "P", "u", "t", "ping", "cang", "/", "zuo", "bo", "dong", "lv", "jiao", "yi">>

\* The labels the two outlier writers put in the signal_type column.
OILabels == {OI1, OI2, OI3, OI4, OI5, OI6, OI7, OI8}
VolumeLabels == {VOL1, VOL2, VOL3, VOL4, VOL5, VOL6, VOL7, VOL8}

EXCLUDE_SIGNALS == {EXCL1, EXCL2, EXCL3}
BULLISH_CALL_SIGNALS == {OI1, OI3, VOL1}
BEARISH_CALL_SIGNALS == {OI2, OI4, VOL2, VOL4}
BULLISH_PUT_SIGNALS == {OI6, OI8, VOL6, VOL8}
BEARISH_PUT_SIGNALS == {OI5, VOL5}

\* The label's fixed flags.
ClassifySignal(signal_type, option_type) ==
    LET is_call == option_type = "CALL"
        is_put == option_type = "PUT"
        none == [is_bullish |-> FALSE, is_bearish |-> FALSE, should_count |-> FALSE]
    IN IF signal_type \in EXCLUDE_SIGNALS THEN none
       ELSE IF signal_type \in BULLISH_CALL_SIGNALS /\ is_call
            THEN [is_bullish |-> TRUE, is_bearish |-> FALSE, should_count |-> TRUE]
       ELSE IF signal_type \in BEARISH_CALL_SIGNALS /\ is_call
            THEN [is_bullish |-> FALSE, is_bearish |-> TRUE, should_count |-> TRUE]
       ELSE IF signal_type \in BULLISH_PUT_SIGNALS /\ is_put
            THEN [is_bullish |-> TRUE, is_bearish |-> FALSE, should_count |-> TRUE]
       ELSE IF signal_type \in BEARISH_PUT_SIGNALS /\ is_put
            THEN [is_bullish |-> FALSE, is_bearish |-> TRUE, should_count |-> TRUE]
       ELSE none

\* ------------------------------------------------------------------------
\* Strings
\* ------------------------------------------------------------------------
\* needle in haystack
Contains(haystack, needle) ==
    \E k \in 0..(Len(haystack) - Len(needle)) :
        \A m \in 1..Len(needle) : haystack[k + m] = needle[m]

\* str.lower(); only the upper-case letters of the labels are listed
LowerChar(c) ==
    CASE c = "C" -> "c"
      [] c = "P" -> "p"
      [] OTHER -> c

Lower(s) == [k \in 1..Len(s) |-> LowerChar(s[k])]

KanZhang == <<"kan", "zhang">>
KanDie == <<"kan", "die">>
BullishWord == <<"b", "u", "l", "l", "i", "s", "h">>
BearishWord == <<"b", "e", "a", "r", "i", "s", "h">>

\* the test of analyze_signals for a bullish row
IsBullishText(signal_type) ==
    Contains(signal_type, KanZhang) \/ Contains(Lower(signal_type), BullishWord)

\* the elif test of analyze_signals for a bearish row
IsBearishText(signal_type) ==
    Contains(signal_type, KanDie) \/ Contains(Lower(signal_type), BearishWord)

\* ------------------------------------------------------------------------
\* State
\* ------------------------------------------------------------------------
VARIABLES
    cash,          \* users.cash
    stock,         \* users.stock
    tbl,           \* transaction_history; transaction_id is the index
    now,           \* the clock, in hours
    pc,            \* where run_trading_cycle stands
    signals,       \* the dict of analyze_signals, in insertion order
    user_cash,     \* float(user_info['cash']) as last read
    total_value,   \* float(user_info['total_value']) as read for buy_amount
    holdings,      \* get_holding_stocks() as read by process_trading_signals
    idx,           \* position of the running loop
    should_sell,   \* the local of the sell loop: "unbound", "true", "false"
    log,           \* the sell_stock and buy_stock calls of the running cycle
    outcome,       \* how the last cycle ended
    row,           \* the row analyze_signals has just read
    cycles,        \* runs of the program so far
    file_age,      \* the ages get_latest_files found, where they are kept
    contract,      \* a merged option row handed to the outlier writers
    emitted,       \* what a writer made of it
    snapshots,     \* the rows of one contract in the files a writer compares
    writer,        \* a run of main of the volume writer
    volume_outlier,    \* the rows of table volume_outlier
    processed_files,   \* the rows of table processed_files
    insert_time,       \* the clock create_time is read from
    outlier_file,      \* the newest file of folder volume_outlier
    futures,           \* the tasks of scan_all_stocks
    all_options_data,  \* the locals of scan_all_stocks
    successful_scans,
    failed_scans

\* the stages around the trader: the snapshot fetch, the outlier writers'
\* main, the insert stage
inserterVars == <<volume_outlier, processed_files, insert_time, outlier_file>>

scannerVars == <<futures, all_options_data, successful_scans, failed_scans>>

traderVars == <<cash, stock, tbl, now, pc, signals, user_cash, total_value,
                holdings, idx, should_sell, log, outcome, row, cycles, file_age>>

stageVars == <<snapshots, writer, inserterVars, scannerVars>>

vars == <<cash, stock, tbl, now, pc, signals, user_cash, total_value,
          holdings, idx, should_sell, log, outcome, row, cycles,
          file_age, contract, emitted, stageVars>>

NoSnapshots == <<>>

NotStarted == [pc |-> "idle"]

NoFutures == <<>>

SnapshotsIdle == snapshots = NoSnapshots

WriterIdle == writer = NotStarted

NoFile == [csv_filename |-> ""]

InserterIdle ==
    /\ volume_outlier = {}
    /\ processed_files = {}
    /\ insert_time = 0
    /\ outlier_file = NoFile

ScannerIdle ==
    /\ futures = NoFutures
    /\ all_options_data = <<>>
    /\ successful_scans = 0
    /\ failed_scans = 0

NoRow == [symbol |-> "", signal_type |-> <<>>, option_type |-> ""]

NoAges == <<>>

NoContract == [option_type |-> ""]

NotRun == [variant |-> ""]

\* ------------------------------------------------------------------------
\* analyze_signals
\* ------------------------------------------------------------------------
HasSymbol(sig, symbol) == \E k \in 1..Len(sig) : sig[k].symbol = symbol

KeyIndex(sig, symbol) == CHOOSE k \in 1..Len(sig) : sig[k].symbol = symbol

\* one iteration of either loop of analyze_signals
AddRow(sig, symbol, signal_type) ==
    IF symbol = "" \/ signal_type = <<>> THEN sig
    ELSE LET s1 == IF HasSymbol(sig, symbol) THEN sig
                   ELSE Append(sig, [symbol |-> symbol, bullish |-> 0, bearish |-> 0])
             k == KeyIndex(s1, symbol)
         IN IF IsBullishText(signal_type)
            THEN [s1 EXCEPT ![k].bullish = @ + 1]
            ELSE IF IsBearishText(signal_type)
                 THEN [s1 EXCEPT ![k].bearish = @ + 1]
                 ELSE s1

Bullish(sig, symbol) == IF HasSymbol(sig, symbol) THEN sig[KeyIndex(sig, symbol)].bullish ELSE 0

Bearish(sig, symbol) == IF HasSymbol(sig, symbol) THEN sig[KeyIndex(sig, symbol)].bearish ELSE 0

\* ------------------------------------------------------------------------
\* The tables
\* ------------------------------------------------------------------------
\* the generated column amount
Amount(r) == r.current_price * r.number_shares

HeldTids(t) == {k \in 1..Len(t) : t[k].is_hold}

\* the symbols with a row WHERE is_hold = true
HeldSymbols(t) == {t[k].symbol : k \in HeldTids(t)}

RECURSIVE SortedSeq(_)
SortedSeq(S) ==
    IF S = {} THEN <<>>
    ELSE LET m == CHOOSE x \in S : \A y \in S : x <= y
         IN <<m>> \o SortedSeq(S \ {m})

\* get_holding_stocks: the held rows ORDER BY buy_date, as transaction ids
\* (ids grow with buy_date)
GetHoldingStocks(t) == SortedSeq(HeldTids(t))

RECURSIVE SumAmount(_, _)
SumAmount(t, S) ==
    IF S = {} THEN 0
    ELSE LET k == CHOOSE x \in S : TRUE
         IN Amount(t[k]) + SumAmount(t, S \ {k})

\* COALESCE(SUM(amount), 0) ... WHERE is_hold = true
SumHeld(t) == SumAmount(t, HeldTids(t))

RollbackKeeps(committed, working) == working

\* conn.rollback(): the working copy of the transaction is dropped
Rollback(committed, working) == committed

\* conn.commit()
Commit(committed, working) == working

\* buy_amount = total_value * BUY_RATIO, as quotient and remainder
BuyQuot(tv) == (tv * BUY_RATIO_NUM) \div BUY_RATIO_DEN

BuyRem(tv) == (tv * BUY_RATIO_NUM) % BUY_RATIO_DEN

CashCoversAlways(c, tv) == TRUE

CashCoversWhenPositive(c, tv) == c > 0

\* float(user_info['cash']) >= buy_amount
CashCovers(c, tv) == c >= BuyQuot(tv) + (IF BuyRem(tv) > 0 THEN 1 ELSE 0)

SharesForRoundedUp(tv, price) == (tv * BUY_RATIO_NUM) \div (BUY_RATIO_DEN * price) + 1

\* int(buy_amount / current_price)
SharesFor(tv, price) == (tv * BUY_RATIO_NUM) \div (BUY_RATIO_DEN * price)

\* cash - buy_amount, stored in DECIMAL(15,2): rounded half away from zero
Debit(c, tv) ==
    LET n == c - BuyQuot(tv)
        r == BuyRem(tv)
    IN IF n > 0 THEN (IF 2 * r <= BUY_RATIO_DEN THEN n ELSE n - 1)
       ELSE (IF r > 0 /\ 2 * r >= BUY_RATIO_DEN THEN n - 1 ELSE n)

\* cash + sell_amount
Credit(c, amount) == c + amount

\* update_holding_prices: quote[s] is what get_current_price(s) returns
UpdateHoldingPrices(t, quote, fail) ==
    LET w == [k \in 1..Len(t) |->
                 IF t[k].is_hold /\ quote[t[k].symbol] # NoPrice
                 THEN [t[k] EXCEPT !.current_price = quote[t[k].symbol]]
                 ELSE t[k]]
    IN IF fail THEN Rollback(t, w) ELSE Commit(t, w)

UpdateUserTotalValue(db, fail) ==
    [db EXCEPT !.stock = SumHeld(db.tbl), !.cash = @ + SumHeld(db.tbl)]

\* update_user_stock_value
UpdateUserStockValue(db, fail) ==
    LET w == [db EXCEPT !.stock = SumHeld(db.tbl)]
    IN IF fail THEN Rollback(db, w) ELSE Commit(db, w)

\* idx_unique_holding_symbol: a second row of the symbol WHERE is_hold = true
\* is refused
UniqueViolationOff(t, symbol) == FALSE

UniqueViolation(t, symbol) == symbol \in HeldSymbols(t)

\* buy_stock; fail: 0 no database error, 1 the INSERT went through and the
\* UPDATE of users raises, 2 commit raises
BuyStock(db, symbol, tv, price, fail, t) ==
    IF price = NoPrice THEN [db |-> db, ok |-> FALSE]
    ELSE IF SharesFor(tv, price) <= 0 THEN [db |-> db, ok |-> FALSE]
    ELSE IF UniqueViolation(db.tbl, symbol)
         THEN [db |-> Rollback(db, db), ok |-> FALSE]
    ELSE LET w1 == [db EXCEPT !.tbl = Append(@,
                        [symbol |-> symbol, buy_price |-> price, sell_price |-> 0,
                         current_price |-> price,
                         number_shares |-> SharesFor(tv, price),
                         is_hold |-> TRUE, buy_date |-> t])]
             w2 == [w1 EXCEPT !.cash = Debit(@, tv)]
         IN CASE fail = 0 -> [db |-> Commit(db, w2), ok |-> TRUE]
              [] fail = 1 -> [db |-> Rollback(db, w1), ok |-> FALSE]
              [] OTHER -> [db |-> Rollback(db, w2), ok |-> FALSE]

SellAmountStale(before, after, tid) == Amount(before.tbl[tid])

\* SELECT amount FROM transaction_history, after the UPDATE of the row
SellAmount(before, after, tid) == Amount(after.tbl[tid])

\* sell_stock; fail: 0 no database error, 1 the UPDATE of the row went
\* through and the UPDATE of users raises, 2 commit raises
SellStock(db, tid, price, fail) ==
    IF price = NoPrice THEN [db |-> db, ok |-> FALSE]
    ELSE LET w1 == [db EXCEPT !.tbl[tid] =
                        [@ EXCEPT !.sell_price = price, !.current_price = price,
                                  !.is_hold = FALSE]]
             w2 == [w1 EXCEPT !.cash = Credit(@, SellAmount(db, w1, tid))]
         IN CASE fail = 0 -> [db |-> Commit(db, w2), ok |-> TRUE]
              [] fail = 1 -> [db |-> Rollback(db, w1), ok |-> FALSE]
              [] OTHER -> [db |-> Rollback(db, w2), ok |-> FALSE]

DB == [cash |-> cash, stock |-> stock, tbl |-> tbl]

\* ------------------------------------------------------------------------
\* process_trading_signals: the decisions
\* ------------------------------------------------------------------------
\* the comparison of the two counts alone
SignalSellByMajority(bullish, bearish) ==
    IF bullish > 0 /\ bearish > 0 THEN bullish <= bearish
    ELSE bearish > 0

\* the sell rule for a held symbol that is a key of signals
SignalSell(bullish, bearish) ==
    IF bullish > 0 /\ bearish > 0
    THEN (IF bearish >= 3 THEN TRUE
          ELSE IF bullish > bearish THEN FALSE
          ELSE TRUE)
    ELSE IF bearish > 0 /\ bullish = 0 THEN TRUE
    ELSE FALSE

\* hours_held > HOLD_HOURS_LIMIT
HeldTooLong(t, buy_date) == t - buy_date > HOLD_HOURS_LIMIT

\* the value of should_sell when line 478 reads it; prev is what the
\* iteration before left in the local ("unbound" before the first one)
ShouldSell(sig, r, t, prev) ==
    IF HasSymbol(sig, r.symbol)
    THEN (IF SignalSell(Bullish(sig, r.symbol), Bearish(sig, r.symbol))
          THEN "true" ELSE "false")
    ELSE IF HeldTooLong(t, r.buy_date) THEN "true" ELSE prev

\* the buy rule for a key of signals
SignalBuy(bullish, bearish) == bullish >= 2 /\ bearish = 0

\* holding_symbols
HoldingSymbols(t, hs) == {t[hs[k]].symbol : k \in 1..Len(hs)}

IsFreshAnyAge(age) == age >= 0

\* get_latest_files keeps a file whose name is at most this old (seconds;
\* a negative age stands for no file with a time in its name)
IsFresh(age) == age >= 0 /\ age <= FILE_TIMEOUT_MINUTES * 60

FileAges == {-1, FILE_TIMEOUT_MINUTES * 60, FILE_TIMEOUT_MINUTES * 60 + 1}

\* ------------------------------------------------------------------------
\* Scopes: what the environment feeds the program in each specification
\* ------------------------------------------------------------------------
AllLabels == OILabels \cup VolumeLabels

\* every label, two symbols, one quote
ScopeTrade ==
    [labels |-> AllLabels \cup {<<>>}, row_symbols |-> Symbols \cup {""},
     max_count |-> MaxCount,
     prices |-> {NoPrice, PriceLow}, max_cycles |-> MaxCycles]

\* every label and higher counts for one symbol, one quote
ScopeSell ==
    [labels |-> AllLabels, row_symbols |-> {"A"},
     max_count |-> MaxCountSell,
     prices |-> {NoPrice, PriceLow}, max_cycles |-> MaxCycles]

\* every label, two symbols, the analysis alone
ScopeSignals ==
    [labels |-> AllLabels, row_symbols |-> Symbols,
     max_count |-> MaxCount,
     prices |-> {NoPrice, PriceLow}, max_cycles |-> MaxCycles]

\* every label, one symbol, the ages of the two files kept
ScopeFiles ==
    [labels |-> AllLabels, row_symbols |-> {"A"},
     max_count |-> MaxCount,
     prices |-> {NoPrice, PriceLow}, max_cycles |-> MaxCycles]

\* quotes far apart, over more cycles, bullish rows only
ScopeCash ==
    [labels |-> {VOL1}, row_symbols |-> Symbols,
     max_count |-> MaxCountCash,
     prices |-> PriceOpts, max_cycles |-> MaxCyclesCash]

\* a quote above the first buy_amount, bullish rows only
ScopeNoop ==
    [labels |-> {VOL1}, row_symbols |-> Symbols,
     max_count |-> MaxCountCash,
     prices |-> {NoPrice, PriceHigh, PriceHuge}, max_cycles |-> MaxCycles]

\* ------------------------------------------------------------------------
\* Init and the steps of run_trading_cycle
\* ------------------------------------------------------------------------
TraderInit ==
    /\ cash = INITIAL_CASH * CentsPerUnit
    /\ stock = 0
    /\ tbl = <<>>
    /\ now = 0
    /\ pc = "idle"
    /\ signals = <<>>
    /\ user_cash = 0
    /\ total_value = 0
    /\ holdings = <<>>
    /\ idx = 0
    /\ should_sell = "unbound"
    /\ log = <<>>
    /\ outcome = "none"
    /\ row = NoRow
    /\ cycles = 0
    /\ file_age = NoAges

Init ==
    /\ TraderInit
    /\ contract = NoContract
    /\ emitted = NotRun
    /\ SnapshotsIdle /\ WriterIdle /\ InserterIdle /\ ScannerIdle

\* update_holding_prices and get_latest_files
StartCycle(sc) ==
    /\ pc = "idle"
    /\ cycles < sc.max_cycles
    /\ cycles' = cycles + 1
    /\ \E quote \in [Symbols -> sc.prices], fail \in BOOLEAN,
          age_outlier \in FileAges, age_volume \in FileAges :
          /\ tbl' = UpdateHoldingPrices(tbl, quote, fail)
          /\ IF IsFresh(age_outlier) \/ IsFresh(age_volume)
             THEN pc' = "analyze" /\ outcome' = "none"
             ELSE pc' = "exit" /\ outcome' = "no_file"
    /\ UNCHANGED <<cash, stock, now, signals, user_cash, total_value,
                   holdings, idx, should_sell, log, row,
                   file_age, contract, emitted, stageVars>>

\* the same step, with the ages of the two newest files kept
StartCycleRecorded(sc) ==
    /\ pc = "idle"
    /\ cycles < sc.max_cycles
    /\ cycles' = cycles + 1
    /\ \E quote \in [Symbols -> sc.prices], fail \in BOOLEAN,
          age_outlier \in FileAges, age_volume \in FileAges :
          /\ tbl' = UpdateHoldingPrices(tbl, quote, fail)
          /\ file_age' = [outlier |-> age_outlier, volume |-> age_volume]
          /\ IF IsFresh(age_outlier) \/ IsFresh(age_volume)
             THEN pc' = "analyze" /\ outcome' = "none"
             ELSE pc' = "exit" /\ outcome' = "no_file"
    /\ UNCHANGED <<cash, stock, now, signals, user_cash, total_value,
                   holdings, idx, should_sell, log, row, contract, emitted, stageVars>>

\* one row of a loaded file goes through analyze_signals
ReadRow(r, max_count) ==
    /\ pc = "analyze"
    /\ LET s == AddRow(signals, r.symbol, r.signal_type)
       IN /\ \A k \in 1..Len(s) : s[k].bullish <= max_count /\ s[k].bearish <= max_count
          /\ signals' = s

\* the writers put a label of the CALL branch on CALL rows and a label of
\* the PUT branch on PUT rows
OptionTypeOf(signal_type) ==
    IF signal_type \in {OI1, OI2, OI3, OI4, VOL1, VOL2, VOL3, VOL4} THEN "CALL" ELSE "PUT"

FileRows(sc) ==
    {[symbol |-> s, signal_type |-> l, option_type |-> OptionTypeOf(l)] :
        s \in sc.row_symbols, l \in sc.labels}

AnalyzeRow(sc) ==
    /\ \E r \in FileRows(sc) : ReadRow(r, sc.max_count)
    /\ UNCHANGED <<cash, stock, tbl, now, pc, user_cash, total_value,
                   holdings, idx, should_sell, log, outcome, row, cycles,
                   file_age, contract, emitted, stageVars>>

\* the same step, with the row kept for inspection
AnalyzeRowRecorded(sc) ==
    /\ \E r \in FileRows(sc) : ReadRow(r, sc.max_count) /\ row' = r
    /\ UNCHANGED <<cash, stock, tbl, now, pc, user_cash, total_value,
                   holdings, idx, should_sell, log, outcome, cycles,
                   file_age, contract, emitted, stageVars>>

\* the outlier file carries the labels of the open interest writer, the
\* volume outlier file those of the volume writer
FileOf(signal_type) == IF signal_type \in OILabels THEN "outlier" ELSE "volume"

\* the same step where the ages are kept: load_outlier_data is called for
\* the files get_latest_files returned, and the row is kept for inspection
AnalyzeRowLoaded(sc) ==
    /\ pc = "analyze"
    /\ \E r \in FileRows(sc) :
          /\ IsFresh(file_age[FileOf(r.signal_type)])
          /\ ReadRow(r, sc.max_count)
          /\ row' = r
    /\ UNCHANGED <<cash, stock, tbl, now, pc, user_cash, total_value,
                   holdings, idx, should_sell, log, outcome, cycles,
                   file_age, contract, emitted, stageVars>>

\* the files are read through: run_trading_cycle returns without signals,
\* or process_trading_signals starts
EndAnalyze ==
    /\ pc = "analyze"
    /\ IF signals = <<>>
       THEN /\ pc' = "exit"
            /\ outcome' = "no_signal"
            /\ UNCHANGED <<user_cash, total_value, holdings, idx,
                   file_age, contract, emitted, stageVars>>
       ELSE /\ pc' = "sell"
            /\ outcome' = outcome
            /\ user_cash' = cash
            /\ total_value' = cash + stock
            /\ holdings' = GetHoldingStocks(tbl)
            /\ idx' = 1
    /\ UNCHANGED <<cash, stock, tbl, now, signals, should_sell, log, row, cycles,
                   file_age, contract, emitted, stageVars>>

\* one iteration of the sell loop
SellStep(sc) ==
    /\ pc = "sell"
    /\ idx <= Len(holdings)
    /\ LET tid == holdings[idx]
           d == ShouldSell(signals, tbl[tid], now, should_sell)
       IN IF d = "unbound"
          THEN \* UnboundLocalError, caught by the except of the function
               /\ pc' = "finish"
               /\ UNCHANGED <<cash, tbl, log, idx, should_sell,
                   file_age, contract, emitted, stageVars>>
          ELSE /\ pc' = pc
               /\ idx' = idx + 1
               /\ should_sell' = d
               /\ IF d = "true"
                  THEN \E price \in sc.prices, fail \in 0..2 :
                          LET res == SellStock(DB, tid, price, fail)
                          IN /\ cash' = res.db.cash
                             /\ tbl' = res.db.tbl
                             /\ log' = Append(log, [op |-> "sell", symbol |-> tbl[tid].symbol,
                                                    price |-> price, ok |-> res.ok])
                  ELSE UNCHANGED <<cash, tbl, log,
                   file_age, contract, emitted, stageVars>>
    /\ UNCHANGED <<stock, now, signals, user_cash, total_value, holdings, outcome,
                   row, cycles,
                   file_age, contract, emitted, stageVars>>

\* after the sell loop: buy_amount and the first cash test
SellLoopEnd ==
    /\ pc = "sell"
    /\ idx > Len(holdings)
    /\ IF CashCovers(user_cash, total_value)
       THEN pc' = "buy" /\ idx' = 1
       ELSE pc' = "finish" /\ idx' = idx
    /\ UNCHANGED <<cash, stock, tbl, now, signals, user_cash, total_value,
                   holdings, should_sell, log, outcome, row, cycles,
                   file_age, contract, emitted, stageVars>>

\* one iteration of the buy loop
BuyStep(sc) ==
    /\ pc = "buy"
    /\ idx <= Len(signals)
    /\ LET e == signals[idx]
       IN IF e.symbol \notin HoldingSymbols(tbl, holdings) /\ SignalBuy(e.bullish, e.bearish)
          THEN \E price \in sc.prices, fail \in 0..2 :
                  LET res == BuyStock(DB, e.symbol, total_value, price, fail, now)
                  IN /\ res.ok => Len(tbl) < MaxTx
                     /\ cash' = res.db.cash
                     /\ tbl' = res.db.tbl
                     /\ log' = Append(log, [op |-> "buy", symbol |-> e.symbol,
                                            price |-> price, ok |-> res.ok])
                     /\ user_cash' = IF res.ok THEN res.db.cash ELSE user_cash
                     /\ IF res.ok /\ ~CashCovers(res.db.cash, total_value)
                        THEN pc' = "finish" /\ idx' = idx
                        ELSE pc' = pc /\ idx' = idx + 1
          ELSE /\ idx' = idx + 1
               /\ UNCHANGED <<cash, tbl, log, user_cash, pc,
                   file_age, contract, emitted, stageVars>>
    /\ UNCHANGED <<stock, now, signals, total_value, holdings, should_sell, outcome,
                   row, cycles,
                   file_age, contract, emitted, stageVars>>

BuyLoopEnd ==
    /\ pc = "buy"
    /\ idx > Len(signals)
    /\ pc' = "finish"
    /\ UNCHANGED <<cash, stock, tbl, now, signals, user_cash, total_value,
                   holdings, idx, should_sell, log, outcome, row, cycles,
                   file_age, contract, emitted, stageVars>>

\* update_user_stock_value
Finish ==
    /\ pc = "finish"
    /\ LET res == UpdateUserStockValue(DB, FALSE)
       IN cash' = res.cash /\ stock' = res.stock /\ tbl' = res.tbl
    /\ pc' = "exit"
    /\ outcome' = "done"
    /\ UNCHANGED <<now, signals, user_cash, total_value, holdings, idx,
                   should_sell, log, row, cycles,
                   file_age, contract, emitted, stageVars>>

\* run_trading_cycle returns: its locals are gone
Exit ==
    /\ pc = "exit"
    /\ pc' = "idle"
    /\ outcome' = "none"
    /\ signals' = <<>>
    /\ user_cash' = 0
    /\ total_value' = 0
    /\ holdings' = <<>>
    /\ idx' = 0
    /\ should_sell' = "unbound"
    /\ log' = <<>>
    /\ row' = NoRow
    /\ file_age' = NoAges
    /\ UNCHANGED <<cash, stock, tbl, now, cycles, contract, emitted, stageVars>>

\* time passes between two runs of the program
Tick ==
    /\ pc = "idle"
    /\ now + TickHours <= MaxClock
    /\ now' = now + TickHours
    /\ UNCHANGED <<cash, stock, tbl, pc, signals, user_cash, total_value,
                   holdings, idx, should_sell, log, outcome, row, cycles,
                   file_age, contract, emitted, stageVars>>

Next(sc) ==
    \/ StartCycle(sc)
    \/ AnalyzeRow(sc)
    \/ EndAnalyze
    \/ SellStep(sc)
    \/ SellLoopEnd
    \/ BuyStep(sc)
    \/ BuyLoopEnd
    \/ Finish
    \/ Exit
    \/ Tick

Spec == Init /\ [][Next(ScopeTrade)]_vars

\* one cycle up to the end of analyze_signals
NextSignals ==
    \/ StartCycle(ScopeSignals)
    \/ AnalyzeRowRecorded(ScopeSignals)
    \/ EndAnalyze
    \/ Exit

SpecSignals == Init /\ [][NextSignals]_vars

\* the cycles with the ages of the files kept
NextFiles ==
    \/ StartCycleRecorded(ScopeFiles)
    \/ AnalyzeRowLoaded(ScopeFiles)
    \/ EndAnalyze
    \/ SellStep(ScopeFiles)
    \/ SellLoopEnd
    \/ BuyStep(ScopeFiles)
    \/ BuyLoopEnd
    \/ Finish
    \/ Exit
    \/ Tick

SpecFiles == Init /\ [][NextFiles]_vars

SpecSell == Init /\ [][Next(ScopeSell)]_vars

SpecCash == Init /\ [][Next(ScopeCash)]_vars

SpecNoop == Init /\ [][Next(ScopeNoop)]_vars

\* ------------------------------------------------------------------------
\* The outlier writers: compute_outliers (open interest) and
\* compute_volume_outliers.  Price changes are in basis points (0.01 is
\* 100), lastPrice in whole dollars, the market cap in units of 100000
\* dollars (1 / MIN_MARKET_CAP_RATIO).
\* ------------------------------------------------------------------------
THRESHOLD_5M == 5000000
THRESHOLD_10M == 10000000
THRESHOLD_50M == 50000000
MIN_VOLUME == 3000
MIN_VOLUME_INCREASE_PCT == 30
MIN_AMOUNT_THRESHOLD == 2000000
StockThreshold == 100
OptionThreshold == 500
SignificantOiChange == 1000
ContractSize == 100

Abs(x) == IF x < 0 THEN -x ELSE x

StockUpInclusive(stock_change) == stock_change >= StockThreshold

StockUp(stock_change) == stock_change > StockThreshold

StockDownAlways(stock_change) == TRUE

StockDown(stock_change) == stock_change < -StockThreshold

OptionUp(option_change) == option_change > OptionThreshold

OptionDownNever(option_change) == FALSE

OptionDown(option_change) == option_change < -OptionThreshold

OiChangeSignificantFrom(oi_change) == Abs(oi_change) >= SignificantOiChange

OiChangeSignificant(oi_change) == Abs(oi_change) > SignificantOiChange

\* option_up and option_down of compute_outliers, after the relaxation
OptionUpOi(option_change, oi_change) ==
    IF OiChangeSignificant(oi_change) THEN option_change >= 0 ELSE OptionUp(option_change)

OptionDownOi(option_change, oi_change) ==
    IF OiChangeSignificant(oi_change) THEN option_change <= 0 ELSE OptionDown(option_change)

NotionalOfNew(old, new, last_price) == Abs(new) * last_price * ContractSize

\* amount_threshold
Notional(old, new, last_price) == Abs(new - old) * last_price * ContractSize

AtLeastMinimum(amount, minimum) == amount >= minimum

\* the negation of "if amount_threshold <= minimum: continue"
AboveMinimum(amount, minimum) == ~(amount <= minimum)

AmountTierStrict(x) ==
    IF x < THRESHOLD_5M THEN "<=5M"
    ELSE IF x < THRESHOLD_10M THEN "5M-10M"
    ELSE IF x < THRESHOLD_50M THEN "10M-50M"
    ELSE ">50M"

\* _amount_tier
AmountTier(x) ==
    IF x <= THRESHOLD_5M THEN "<=5M"
    ELSE IF x <= THRESHOLD_10M THEN "5M-10M"
    ELSE IF x <= THRESHOLD_50M THEN "10M-50M"
    ELSE ">50M"

NoSignal == <<>>

OiDownAsUp(oi_change) == oi_change > 0

OiUp(oi_change) == oi_change > 0

OiDown(oi_change) == oi_change < 0

VolumeUp(volume_change) == volume_change > 0

\* the tests of the if / elif chain of compute_outliers, in the order of
\* the code, each with the signal_type its branch assigns
OiBranches(r) ==
    LET oi_change == r.new - r.old
        stock_up == StockUp(r.stock_change)
        stock_down == StockDown(r.stock_change)
        option_up == OptionUpOi(r.option_change, oi_change)
        option_down == OptionDownOi(r.option_change, oi_change)
        oi_up == OiUp(oi_change)
        oi_down == OiDown(oi_change)
    IN IF r.option_type = "CALL"
       THEN << <<stock_up /\ option_up /\ oi_up, OI1>>,
               <<stock_down /\ option_down /\ oi_up, OI2>>,
               <<stock_up /\ option_up /\ oi_down, OI3>>,
               <<stock_down /\ option_down /\ oi_down, OI4>> >>
       ELSE IF r.option_type = "PUT"
       THEN << <<stock_down /\ option_up /\ oi_up, OI5>>,
               <<stock_up /\ option_down /\ oi_up, OI6>>,
               <<stock_down /\ option_up /\ oi_down, OI7>>,
               <<stock_up /\ option_down /\ oi_down, OI8>> >>
       ELSE <<>>

\* the tests of the if / elif chain of compute_volume_outliers
VolumeBranches(r) ==
    LET volume_change == r.new - r.old
        stock_up == StockUp(r.stock_change)
        stock_down == StockDown(r.stock_change)
        option_up == OptionUp(r.option_change)
        option_down == OptionDown(r.option_change)
        volume_up == VolumeUp(volume_change)
    IN IF r.option_type = "CALL"
       THEN << <<stock_up /\ option_up /\ volume_up, VOL1>>,
               <<stock_up /\ option_down /\ volume_up, VOL2>>,
               <<stock_down /\ option_up /\ volume_up, VOL3>>,
               <<stock_down /\ option_down /\ volume_up, VOL4>> >>
       ELSE IF r.option_type = "PUT"
       THEN << <<stock_down /\ option_up /\ volume_up, VOL5>>,
               <<stock_down /\ option_down /\ volume_up, VOL6>>,
               <<stock_up /\ option_up /\ volume_up, VOL7>>,
               <<stock_up /\ option_down /\ volume_up, VOL8>> >>
       ELSE <<>>

\* the branches whose test is true
Matching(branches) == {i \in DOMAIN branches : branches[i][1]}

\* if / elif: the first branch whose test is true assigns signal_type;
\* is_outlier stays False when there is none
FirstBranch(branches) ==
    IF Matching(branches) = {} THEN NoSignal
    ELSE branches[CHOOSE i \in Matching(branches) :
                      \A j \in Matching(branches) : i <= j][2]

OiSignalType(r) == FirstBranch(OiBranches(r))

VolumeSignalType(r) == FirstBranch(VolumeBranches(r))

\* a row the loop leaves with continue, or that is no outlier
Dropped(variant) ==
    [variant |-> variant, signal_type |-> NoSignal, amount_threshold |-> 0,
     amount_tier |-> ""]

Emit(variant, signal_type, amount) ==
    IF signal_type = NoSignal THEN Dropped(variant)
    ELSE [variant |-> variant, signal_type |-> signal_type,
          amount_threshold |-> amount, amount_tier |-> AmountTier(amount)]

\* one pass of the loop of compute_outliers
ComputeOutliersRow(r) ==
    LET amount == Notional(r.old, r.new, r.last_price)
    IN IF ~AboveMinimum(amount, THRESHOLD_5M) THEN Dropped("oi")
       ELSE Emit("oi", OiSignalType(r), amount)

\* volume_change_pct > MIN_VOLUME_INCREASE_PCT: the percentage is 100 (or
\* infinite) for volume_old = 0 and volume_new > 0
VolumeIncreaseEnough(old, new) ==
    IF old = 0 THEN new > 0
    ELSE (new - old) * 100 > MIN_VOLUME_INCREASE_PCT * old

\* amount_threshold / market_cap <= market_cap_ratio, for volume_old = 0
MarketCapRatioTooLow(old, amount, market_cap) ==
    old = 0 /\ market_cap > 0 /\ amount <= market_cap

\* one pass of the loop of compute_volume_outliers
ComputeVolumeOutliersRow(r) ==
    LET amount == Notional(r.old, r.new, r.last_price)
    IN IF r.new <= MIN_VOLUME THEN Dropped("volume")
       ELSE IF ~VolumeIncreaseEnough(r.old, r.new) THEN Dropped("volume")
       ELSE IF ~AboveMinimum(amount, MIN_AMOUNT_THRESHOLD) THEN Dropped("volume")
       ELSE IF MarketCapRatioTooLow(r.old, amount, r.market_cap) THEN Dropped("volume")
       ELSE Emit("volume", VolumeSignalType(r), amount)

\* the merged rows the writers are run on: old and new are openInterest
\* for compute_outliers and volume for compute_volume_outliers
StockChanges == {-200, -100, 0, 100, 200}
OptionChanges == {-600, -500, 0, 500, 600}
Quantities ==
    {<<4000, 2999>>, <<4000, 3000>>, <<4000, 4000>>, <<4000, 5000>>,
     <<4000, 5001>>, <<4000, 8000>>, <<0, 5000>>, <<0, 1001>>}
LastPrices == {2, 4, 5, 6, 10, 50, 51, 100, 500}
MarketCaps == {0, 2400000, 100000000}

Contracts ==
    {[option_type |-> o, stock_change |-> s, option_change |-> c,
      old |-> q[1], new |-> q[2], last_price |-> p, market_cap |-> m] :
        o \in {"CALL", "PUT"}, s \in StockChanges, c \in OptionChanges,
        q \in Quantities, p \in LastPrices, m \in MarketCaps}

InitOutliers ==
    /\ TraderInit
    /\ contract \in Contracts
    /\ emitted = NotRun
    /\ SnapshotsIdle /\ WriterIdle /\ InserterIdle /\ ScannerIdle

ComputeOutliers ==
    /\ emitted' = ComputeOutliersRow(contract)
    /\ UNCHANGED <<cash, stock, tbl, now, pc, signals, user_cash, total_value,
                   holdings, idx, should_sell, log, outcome, row, cycles,
                   file_age, contract, stageVars>>

ComputeVolumeOutliers ==
    /\ emitted' = ComputeVolumeOutliersRow(contract)
    /\ UNCHANGED <<cash, stock, tbl, now, pc, signals, user_cash, total_value,
                   holdings, idx, should_sell, log, outcome, row, cycles,
                   file_age, contract, stageVars>>

NextOutliers ==
    \/ ComputeOutliers
    \/ ComputeVolumeOutliers

SpecOutliers == InitOutliers /\ [][NextOutliers]_vars

\* ------------------------------------------------------------------------
\* The preprocessing of the writers: the merge of the two option files on
\* contractSymbol and the price changes.  snapshots holds what the four
\* files have for one contract and its symbol; prices are whole numbers
\* chosen so that a change is a whole number of basis points.
\* ------------------------------------------------------------------------
Infinity == 2147483647
BasisPoints == 10000

\* (lastPrice_new - lastPrice_old) / lastPrice_old, then fillna(0): the
\* division of two float columns gives inf for x / 0 with x > 0 and NaN for
\* 0 / 0, and fillna replaces the NaN only
OptionPriceChange(lastPrice_old, lastPrice_new) ==
    IF lastPrice_old = 0
    THEN (IF lastPrice_new > 0 THEN Infinity ELSE 0)
    ELSE ((lastPrice_new - lastPrice_old) * BasisPoints) \div lastPrice_old

\* stock_price_changes, mapped on the symbol with fillna(0)
StockPriceChange(snap) ==
    IF ~(snap.stock_latest /\ snap.stock_prev) THEN 0
    ELSE IF snap.close_old # 0
         THEN ((snap.close_new - snap.close_old) * BasisPoints) \div snap.close_old
         ELSE 0

\* volume_change_pct as a fraction; den = 0 stands for inf
VolumeChangePct(old, new, is_cross_day) ==
    IF is_cross_day
    THEN (IF old = 0 /\ new > 0 THEN [num |-> 100, den |-> 1]
          ELSE IF old > 0 THEN [num |-> (new - old) * 100, den |-> old]
          ELSE [num |-> 0, den |-> 1])
    ELSE (IF old # 0 THEN [num |-> (new - old) * 100, den |-> old]
          ELSE IF new # 0 THEN [num |-> 1, den |-> 0]
          ELSE [num |-> 0, den |-> 1])

JoinedLeft(snap) == snap.in_latest

\* the left merge keeps the contracts of the newer file, and the notna
\* filter those of them the older file has as well
Joined(snap) == snap.in_latest /\ snap.in_prev

\* the row of merged for the contract (compute_outliers)
MergedOi(snap) ==
    [option_type |-> snap.option_type,
     stock_change |-> StockPriceChange(snap),
     option_change |-> OptionPriceChange(snap.lastPrice_old, snap.lastPrice_new),
     old |-> snap.old, new |-> snap.new,
     last_price |-> snap.lastPrice_new,
     market_cap |-> snap.market_cap,
     oi_change |-> snap.new - snap.old]

\* the row of merged for the contract (compute_volume_outliers)
MergedVolume(snap) ==
    [option_type |-> snap.option_type,
     stock_change |-> StockPriceChange(snap),
     option_change |-> OptionPriceChange(snap.lastPrice_old, snap.lastPrice_new),
     old |-> snap.old, new |-> snap.new,
     last_price |-> snap.lastPrice_new,
     market_cap |-> snap.market_cap,
     volume_change |-> snap.new - snap.old,
     volume_change_pct |-> VolumeChangePct(snap.old, snap.new, snap.is_cross_day)]

StockFiles ==
    {[close_old |-> 100, close_new |-> 102, stock_latest |-> TRUE, stock_prev |-> TRUE],
     [close_old |-> 100, close_new |-> 98, stock_latest |-> TRUE, stock_prev |-> TRUE],
     [close_old |-> 0, close_new |-> 102, stock_latest |-> TRUE, stock_prev |-> TRUE],
     [close_old |-> 100, close_new |-> 102, stock_latest |-> TRUE, stock_prev |-> FALSE],
     [close_old |-> 100, close_new |-> 102, stock_latest |-> FALSE, stock_prev |-> TRUE]}
OptionPrices == {<<0, 0>>, <<0, 100>>, <<100, 100>>, <<100, 106>>, <<100, 94>>}
SnapshotQuantities == {<<0, 5000>>, <<4000, 8000>>, <<4000, 2000>>}

Snapshots ==
    {[in_latest |-> l, in_prev |-> p, option_type |-> o,
      old |-> q[1], new |-> q[2],
      lastPrice_old |-> x[1], lastPrice_new |-> x[2],
      close_old |-> f.close_old, close_new |-> f.close_new,
      stock_latest |-> f.stock_latest, stock_prev |-> f.stock_prev,
      is_cross_day |-> d, market_cap |-> 0] :
        l \in BOOLEAN, p \in BOOLEAN, o \in {"CALL", "PUT"},
        q \in SnapshotQuantities, x \in OptionPrices, f \in StockFiles,
        d \in BOOLEAN}

InitMerge ==
    /\ TraderInit
    /\ contract = NoContract
    /\ emitted = NotRun
    /\ snapshots \in Snapshots
    /\ WriterIdle /\ InserterIdle /\ ScannerIdle

\* compute_outliers on the files
DiffOi ==
    /\ snapshots # NoSnapshots
    /\ IF Joined(snapshots)
       THEN /\ contract' = MergedOi(snapshots)
            /\ emitted' = ComputeOutliersRow(MergedOi(snapshots))
       ELSE /\ contract' = NoContract
            /\ emitted' = Dropped("oi")
    /\ UNCHANGED <<cash, stock, tbl, now, pc, signals, user_cash, total_value,
                   holdings, idx, should_sell, log, outcome, row, cycles,
                   file_age, stageVars>>

\* compute_volume_outliers on the files
DiffVolume ==
    /\ snapshots # NoSnapshots
    /\ IF Joined(snapshots)
       THEN /\ contract' = MergedVolume(snapshots)
            /\ emitted' = ComputeVolumeOutliersRow(MergedVolume(snapshots))
       ELSE /\ contract' = NoContract
            /\ emitted' = Dropped("volume")
    /\ UNCHANGED <<cash, stock, tbl, now, pc, signals, user_cash, total_value,
                   holdings, idx, should_sell, log, outcome, row, cycles,
                   file_age, stageVars>>

NextMerge ==
    \/ DiffOi
    \/ DiffVolume

SpecMerge == InitMerge /\ [][NextMerge]_vars

\* ------------------------------------------------------------------------
\* main of the volume writer: find the files, load them, compute, save.
\* writer.defect is what is wrong with the input files, writer.rows the
\* contracts compute_volume_outliers classifies as outliers.
\* ------------------------------------------------------------------------
WriterContracts == {"c1", "c2", "c3"}

WriterDefects ==
    {"none", "option_files", "stock_file", "option_column", "stock_column",
     "open_column"}

RaisesNothing(defect, stage) == ""

\* the exception a stage of main raises on the defect, "" for none:
\* find_latest_two_all_csv on fewer than two option files or a missing
\* paired stock file, load_option_csv and load_stock_csv on a missing
\* required column, compute_volume_outliers on a stock file without Open
Raises(defect, stage) ==
    IF stage = "find" /\ defect \in {"option_files", "stock_file"}
    THEN "FileNotFoundError"
    ELSE IF stage = "load" /\ defect \in {"option_column", "stock_column"}
    THEN "KeyError"
    ELSE IF stage = "compute" /\ defect = "open_column"
    THEN "KeyError"
    ELSE ""

\* except Exception as e: print, traceback
Aborted(w, reason) == [w EXCEPT !.pc = "aborted", !.reason = reason]

InitWriter ==
    /\ TraderInit
    /\ contract = NoContract
    /\ emitted = NotRun
    /\ SnapshotsIdle /\ WriterIdle /\ InserterIdle /\ ScannerIdle

StartWriter ==
    /\ writer.pc = "idle"
    /\ \E defect \in WriterDefects, rows \in SUBSET WriterContracts :
          writer' = [pc |-> "find", defect |-> defect, rows |-> rows,
                     out_df |-> {}, saved |-> {}, reason |-> ""]
    /\ UNCHANGED <<traderVars, contract, emitted, snapshots, inserterVars,
                   scannerVars>>

WriterStep(stage, next) ==
    /\ writer.pc = stage
    /\ writer' = IF Raises(writer.defect, stage) # ""
                 THEN Aborted(writer, Raises(writer.defect, stage))
                 ELSE [writer EXCEPT !.pc = next]
    /\ UNCHANGED <<traderVars, contract, emitted, snapshots, inserterVars,
                   scannerVars>>

FindFiles == WriterStep("find", "load")

LoadFiles == WriterStep("load", "compute")

\* compute_volume_outliers, and the return of main on an empty result
ComputeAll ==
    /\ writer.pc = "compute"
    /\ writer' = IF Raises(writer.defect, "compute") # ""
                 THEN Aborted(writer, Raises(writer.defect, "compute"))
                 ELSE IF writer.rows = {}
                 THEN [writer EXCEPT !.pc = "empty"]
                 ELSE [writer EXCEPT !.pc = "save", !.out_df = writer.rows]
    /\ UNCHANGED <<traderVars, contract, emitted, snapshots, inserterVars,
                   scannerVars>>

\* save_volume_outliers
SaveOutliers ==
    /\ writer.pc = "save"
    /\ writer' = [writer EXCEPT !.pc = "saved", !.saved = writer.out_df]
    /\ UNCHANGED <<traderVars, contract, emitted, snapshots, inserterVars,
                   scannerVars>>

NextWriter ==
    \/ StartWriter
    \/ FindFiles
    \/ LoadFiles
    \/ ComputeAll
    \/ SaveOutliers

SpecWriter == InitWriter /\ [][NextWriter]_vars

\* ------------------------------------------------------------------------
\* The insert stage: DatabaseInserter.process_volume_outlier on the newest
\* file of folder volume_outlier.  A row of volume_outlier is kept as its
\* key, contractSymbol and create_time (folder_name is one folder).
\* ------------------------------------------------------------------------
\* the seconds the clock of the insert stage can reach
MaxInsertTime == 4

FileContracts == {"c1", "c2"}

OutlierFiles ==
    {[csv_filename |-> "volume_outlier_1.csv", rows |-> FileContracts,
      same_as_previous |-> b] : b \in BOOLEAN}

\* check_file_processed: (is_processed, status); an exception of the query
\* gives (False, None)
CheckFileProcessed(pf, csv_filename, fail) ==
    IF fail \/ ~(\E r \in pf : r.csv_filename = csv_filename)
    THEN [is_processed |-> FALSE, status |-> "None"]
    ELSE [is_processed |-> TRUE,
          status |-> (CHOOSE r \in pf : r.csv_filename = csv_filename).status]

\* record_processed_file: INSERT ... ON CONFLICT (folder_name, csv_filename)
\* DO UPDATE and commit; rollback on an exception
RecordProcessedFile(pf, csv_filename, status, fail) ==
    IF fail THEN pf
    ELSE {r \in pf : r.csv_filename # csv_filename}
            \cup {[csv_filename |-> csv_filename, status |-> status]}

\* prepare_volume_data: one row a contract, all with the current_time read
\* once
PrepareVolumeData(rows, current_time) ==
    {[contractSymbol |-> c, create_time |-> current_time] : c \in rows}

InsertPlain(t, data_list) == t \cup data_list

\* INSERT ... ON CONFLICT (contractSymbol, folder_name, create_time) DO
\* UPDATE: a row with the key of a new row is replaced by it
InsertOnConflictUpdate(t, data_list) ==
    {r \in t : ~(\E d \in data_list : /\ d.contractSymbol = r.contractSymbol
                                        /\ d.create_time = r.create_time)}
        \cup data_list

\* insert_volume_data: the new table and the count it returns; an
\* exception rolls the batch back and returns 0
InsertVolumeData(t, data_list, fail) ==
    IF data_list = {} \/ fail THEN [tbl |-> t, inserted_count |-> 0]
    ELSE [tbl |-> InsertOnConflictUpdate(t, data_list),
          inserted_count |-> Cardinality(data_list)]

InitInserter ==
    /\ TraderInit
    /\ contract = NoContract
    /\ emitted = NotRun
    /\ SnapshotsIdle /\ WriterIdle /\ ScannerIdle
    /\ volume_outlier = {}
    /\ processed_files = {}
    /\ insert_time = 0
    /\ outlier_file \in OutlierFiles

\* one run of process_volume_outlier; the flags say which of its calls
\* meets an exception
ProcessVolumeOutlier ==
    \E check_fail, read_fail, insert_fail, record_fail \in BOOLEAN :
      LET f == outlier_file.csv_filename
          checked == CheckFileProcessed(processed_files, f, check_fail)
          data_list == PrepareVolumeData(outlier_file.rows, insert_time)
          ins == InsertVolumeData(volume_outlier, data_list, insert_fail)
      IN /\ outlier_file # NoFile
         /\ IF checked.is_processed /\ checked.status = "success"
            THEN UNCHANGED <<volume_outlier, processed_files>>
            ELSE IF read_fail
            THEN /\ processed_files' =
                       RecordProcessedFile(processed_files, f, "failed", record_fail)
                 /\ UNCHANGED volume_outlier
            ELSE IF outlier_file.same_as_previous
            THEN /\ processed_files' =
                       RecordProcessedFile(processed_files, f, "skipped", record_fail)
                 /\ UNCHANGED volume_outlier
            ELSE /\ volume_outlier' = ins.tbl
                 /\ processed_files' =
                       RecordProcessedFile(processed_files, f,
                           IF ins.inserted_count > 0 THEN "success" ELSE "failed",
                           record_fail)
         /\ UNCHANGED <<traderVars, contract, emitted, snapshots, writer,
                        insert_time, outlier_file, scannerVars>>

\* a second passes
InsertClockTick ==
    /\ outlier_file # NoFile
    /\ insert_time < MaxInsertTime
    /\ insert_time' = insert_time + 1
    /\ UNCHANGED <<traderVars, contract, emitted, snapshots, writer,
                   volume_outlier, processed_files, outlier_file, scannerVars>>

NextInserter ==
    \/ ProcessVolumeOutlier
    \/ InsertClockTick

SpecInserter == InitInserter /\ [][NextInserter]_vars

\* ------------------------------------------------------------------------
\* scan_stock_30min_multi.py: scan_all_stocks fetches the symbols on a
\* pool of max_workers threads; the main thread alone collects the
\* finished futures, in the order they finish
\* ------------------------------------------------------------------------
ScanSymbols == {"A", "B", "C"}

MaxStocks == 3

max_workers == 2

\* symbols_to_scan: the first max_stocks tickers of the symbol file
SymbolsToScan ==
    {q \in UNION {[1..n -> ScanSymbols] : n \in 1..MaxStocks} :
        \A i, j \in 1..Len(q) : q[i] = q[j] => i = j}

\* the option chain fetched for one symbol, two contracts each
FilteredDf(symbol) ==
    <<[symbol |-> symbol, contractSymbol |-> 1],
      [symbol |-> symbol, contractSymbol |-> 2]>>

NoDf == <<>>

\* what a worker can return for a symbol; "raised" is a future whose
\* result() raises
ScanOutcomes == {"success", "no_data", "error", "raised"}

\* _process_single_stock: (symbol, options_data, stock_price_data, success)
ProcessSingleStock(symbol, outcome_) ==
    [symbol |-> symbol,
     options_data |-> IF outcome_ = "success" THEN FilteredDf(symbol) ELSE NoDf,
     success |-> outcome_ = "success",
     raised |-> outcome_ = "raised"]

\* the body of the as_completed loop that forgets the failures
CollectResultSuccessOnly(acc, result) ==
    IF ~result.raised /\ result.success /\ result.options_data # NoDf
    THEN [all_options_data |-> Append(acc.all_options_data, result.options_data),
          successful_scans |-> acc.successful_scans + 1,
          failed_scans |-> acc.failed_scans]
    ELSE acc

\* the body of the as_completed loop
CollectResult(acc, result) ==
    IF result.raised
    THEN [acc EXCEPT !.failed_scans = @ + 1]
    ELSE IF result.success /\ result.options_data # NoDf
    THEN [all_options_data |-> Append(acc.all_options_data, result.options_data),
          successful_scans |-> acc.successful_scans + 1,
          failed_scans |-> acc.failed_scans]
    ELSE [acc EXCEPT !.failed_scans = @ + 1]

\* pd.concat(all_options_data, ignore_index=True)
RECURSIVE CombinedDf(_)
CombinedDf(dfs) ==
    IF dfs = <<>> THEN <<>> ELSE Head(dfs) \o CombinedDf(Tail(dfs))

InState(st) == {i \in 1..Len(futures) : futures[i].state = st}

InitScanner ==
    /\ TraderInit
    /\ contract = NoContract
    /\ emitted = NotRun
    /\ SnapshotsIdle /\ WriterIdle /\ InserterIdle /\ ScannerIdle

\* executor.submit for every symbol, in the order of symbols_to_scan
SubmitAll ==
    /\ futures = NoFutures
    /\ \E symbols_to_scan \in SymbolsToScan :
         futures' = [i \in 1..Len(symbols_to_scan) |->
                        [symbol |-> symbols_to_scan[i], state |-> "pending",
                         result |-> ProcessSingleStock(symbols_to_scan[i], "error")]]
    /\ UNCHANGED <<traderVars, contract, emitted, snapshots, writer,
                   inserterVars, all_options_data, successful_scans,
                   failed_scans>>

\* an idle thread of the pool takes the oldest queued task
WorkerStart ==
    /\ InState("pending") # {}
    /\ Cardinality(InState("running")) < max_workers
    /\ LET i == CHOOSE k \in InState("pending") :
                    \A m \in InState("pending") : k <= m
       IN futures' = [futures EXCEPT ![i].state = "running"]
    /\ UNCHANGED <<traderVars, contract, emitted, snapshots, writer,
                   inserterVars, all_options_data, successful_scans,
                   failed_scans>>

\* a running _process_single_stock returns or raises
WorkerFinish ==
    /\ \E i \in InState("running"), outcome_ \in ScanOutcomes :
         futures' = [futures EXCEPT
                        ![i].state = "done",
                        ![i].result = ProcessSingleStock(futures[i].symbol, outcome_)]
    /\ UNCHANGED <<traderVars, contract, emitted, snapshots, writer,
                   inserterVars, all_options_data, successful_scans,
                   failed_scans>>

\* as_completed yields a finished future to the main thread
Collect ==
    /\ \E i \in InState("done") :
         LET acc == CollectResult([all_options_data |-> all_options_data,
                                   successful_scans |-> successful_scans,
                                   failed_scans |-> failed_scans],
                                  futures[i].result)
         IN /\ futures' = [futures EXCEPT ![i].state = "collected"]
            /\ all_options_data' = acc.all_options_data
            /\ successful_scans' = acc.successful_scans
            /\ failed_scans' = acc.failed_scans
    /\ UNCHANGED <<traderVars, contract, emitted, snapshots, writer,
                   inserterVars>>

NextScanner ==
    \/ SubmitAll
    \/ WorkerStart
    \/ WorkerFinish
    \/ Collect

SpecScanner == InitScanner /\ [][NextScanner]_vars

\* ------------------------------------------------------------------------
\* buy_stock and sell_stock with the floats they are called with: the
\* quote and the buy amount are in tenths of a cent, the columns
\* buy_price, sell_price, current_price and cash are DECIMAL(.,2)
\* ------------------------------------------------------------------------
MillsPerCent == 10

\* a value stored in a DECIMAL(.,2) column: rounded half away from zero
ToDecimal2(x) ==
    IF x >= 0 THEN (x + MillsPerCent \div 2) \div MillsPerCent
    ELSE 0 - ((MillsPerCent \div 2 - x) \div MillsPerCent)

\* int(buy_amount / current_price), on the float the quote came as
NumberShares(buy_amount, quote) == buy_amount \div quote

\* buy_stock(symbol, buy_amount) when get_current_price returns quote
BuyStockAt(db, symbol, buy_amount, quote, t) ==
    IF quote = NoPrice THEN [db |-> db, ok |-> FALSE]
    ELSE IF NumberShares(buy_amount, quote) <= 0 THEN [db |-> db, ok |-> FALSE]
    ELSE LET w1 == [db EXCEPT !.tbl = Append(@,
                        [symbol |-> symbol, buy_price |-> ToDecimal2(quote),
                         sell_price |-> 0,
                         current_price |-> ToDecimal2(quote),
                         number_shares |-> NumberShares(buy_amount, quote),
                         is_hold |-> TRUE, buy_date |-> t])]
             w2 == [w1 EXCEPT !.cash = ToDecimal2(@ * MillsPerCent - buy_amount)]
         IN [db |-> Commit(db, w2), ok |-> TRUE]

\* sell_stock(transaction_id, symbol) when get_current_price returns quote
SellStockAt(db, tid, quote) ==
    IF quote = NoPrice THEN [db |-> db, ok |-> FALSE]
    ELSE SellStock(db, tid, ToDecimal2(quote), 0)

\* quotes of 1.00, 1.004, 1.005, 1.006, 2.50 and 100.00
Quotes == {NoPrice, 1000, 1004, 1005, 1006, 2500, 100000}

\* buy amounts of 0.05, 10000.00, 10000.004, 10000.005 and 10060.00
BuyAmounts == {50, 10000000, 10000004, 10000005, 10060000}

InitRoundTrip == Init

RoundTripBuy ==
    /\ pc = "idle"
    /\ \E buy_amount \in BuyAmounts, quote \in Quotes :
         LET r == BuyStockAt(DB, "A", buy_amount, quote, now)
         IN /\ cash' = r.db.cash
            /\ stock' = r.db.stock
            /\ tbl' = r.db.tbl
            /\ log' = Append(log, [op |-> "buy", ok |-> r.ok,
                                   buy_amount |-> buy_amount, quote |-> quote])
            /\ pc' = IF r.ok THEN "held" ELSE "finish"
    /\ UNCHANGED <<now, signals, user_cash, total_value, holdings, idx,
                   should_sell, outcome, row, cycles, file_age, contract,
                   emitted, stageVars>>

RoundTripSell ==
    /\ pc = "held"
    /\ \E quote \in Quotes :
         LET r == SellStockAt(DB, Len(tbl), quote)
         IN /\ cash' = r.db.cash
            /\ stock' = r.db.stock
            /\ tbl' = r.db.tbl
            /\ log' = Append(log, [op |-> "sell", ok |-> r.ok,
                                   buy_amount |-> 0, quote |-> quote])
            /\ pc' = "finish"
    /\ UNCHANGED <<now, signals, user_cash, total_value, holdings, idx,
                   should_sell, outcome, row, cycles, file_age, contract,
                   emitted, stageVars>>

NextRoundTrip ==
    \/ RoundTripBuy
    \/ RoundTripSell

SpecRoundTrip == InitRoundTrip /\ [][NextRoundTrip]_vars

\* ------------------------------------------------------------------------
\* Properties
\* ------------------------------------------------------------------------
OkBuys == {k \in 1..Len(log) : log[k].op = "buy" /\ log[k].ok}

OkSells == {k \in 1..Len(log) : log[k].op = "sell" /\ log[k].ok}

Tried(op, symbol) == \E k \in 1..Len(log) : log[k].op = op /\ log[k].symbol = symbol

\* C1: whatever the cycles did, no symbol has two rows with is_hold = true,
\* and buy_stock for a symbol that is held leaves the database as it was,
\* whatever the quote and whether or not the database raises.
OneHeldPerSymbol ==
    /\ \A i, j \in 1..Len(tbl) :
          (tbl[i].is_hold /\ tbl[j].is_hold /\ tbl[i].symbol = tbl[j].symbol) => i = j
    /\ \A k \in 1..Len(tbl) :
          tbl[k].is_hold =>
             \A price \in PriceOpts, fail \in 0..2 :
                LET res == BuyStock(DB, tbl[k].symbol, cash + stock, price, fail, now)
                IN ~res.ok /\ res.db = DB

\* the buy loop stands at a symbol that is already held and has the buy signal
BuyLoopAtHeldSymbol ==
    /\ pc = "buy"
    /\ idx <= Len(signals)
    /\ signals[idx].symbol \in {tbl[k].symbol : k \in {n \in 1..Len(tbl) : tbl[n].is_hold}}
    /\ SignalBuy(signals[idx].bullish, signals[idx].bearish)

\* C2: users.cash is never below zero.
CashNeverNegative == cash >= 0

\* a buy went through and the cash left no longer covers another buy_amount:
\* the buy loop stops
BuyLoopBreaks ==
    /\ pc = "finish"
    /\ OkBuys # {}
    /\ ~CashCovers(cash, total_value)

\* the holdings the sell loop has gone through
Processed ==
    IF pc = "sell" THEN 1..(idx - 1)
    ELSE IF pc = "buy" THEN 1..Len(holdings)
    ELSE {}

\* C3: when process_trading_signals is over, every symbol that had no
\* position, has at least 2 bullish and no bearish signals and whose
\* buy_amount the cash covers has been handed to buy_stock, and every
\* purchase of the cycle was for a symbol with at least 2 bullish and no
\* bearish signals.
BuyTriggerFires ==
    pc = "finish" =>
       /\ \A k \in 1..Len(signals) :
             ( /\ signals[k].symbol \notin HoldingSymbols(tbl, holdings)
               /\ SignalBuy(signals[k].bullish, signals[k].bearish)
               /\ CashCovers(cash, total_value) )
             => Tried("buy", signals[k].symbol)
       /\ \A k \in OkBuys :
             SignalBuy(Bullish(signals, log[k].symbol), Bearish(signals, log[k].symbol))

\* the sell decision as a table of the two counts
SellsBy(bullish, bearish) ==
    IF bullish > 0 /\ bearish > 0 THEN (bearish >= 3 \/ bullish <= bearish)
    ELSE bearish > 0

TimeStopLossSells ==
    /\ (pc = "exit" /\ outcome \in {"no_file", "no_signal"}) =>
          \A k \in 1..Len(tbl) : tbl[k].is_hold => ~HeldTooLong(now, tbl[k].buy_date)
    /\ pc = "finish" =>
          \A k \in 1..Len(holdings) :
             LET r == tbl[holdings[k]]
             IN ( /\ Bullish(signals, r.symbol) = 0
                  /\ Bearish(signals, r.symbol) = 0
                  /\ HeldTooLong(now, r.buy_date) )
                => Tried("sell", r.symbol)

\* C6: every row analyze_signals goes through raises the bullish count of
\* its symbol by one exactly when classify_signal marks its label countable
\* and bullish (and nothing otherwise), and likewise the bearish count.
CountsOverCountableOnly ==
    [][ (pc = "analyze" /\ pc' = "analyze") =>
          LET f == ClassifySignal(row'.signal_type, row'.option_type)
              symbol == row'.symbol
          IN /\ Bullish(signals', symbol) - Bullish(signals, symbol)
                   = (IF f.should_count /\ f.is_bullish THEN 1 ELSE 0)
             /\ Bearish(signals', symbol) - Bearish(signals, symbol)
                   = (IF f.should_count /\ f.is_bearish THEN 1 ELSE 0) ]_vars

IsHeld(t) == {k \in 1..Len(t) : t[k].is_hold}

\* C7 as stated: the sells and buys that one cycle carried out with a quote
\* in hand are committed all or none.
CycleAllOrNothing ==
    \A i, j \in 1..Len(log) :
       (log[i].price # NoPrice /\ log[j].price # NoPrice) => log[i].ok = log[j].ok

\* C7: every step changes the set of held rows and users.cash together or
\* not at all, and a sell_stock or buy_stock that fails leaves the table and
\* the cash as they were: each sell and each buy is committed or rolled back
\* on its own.
EachTradeAtomic ==
    [][ /\ (IsHeld(tbl') = IsHeld(tbl)) <=> (cash' = cash)
        /\ (Len(log') = Len(log) + 1 /\ ~log'[Len(log')].ok)
              => (tbl' = tbl /\ cash' = cash) ]_vars

\* in one cycle a trade was committed and another one raised in the database
\* after a quote was there
CommittedThenFailed ==
    \E i, j \in 1..Len(log) :
       /\ i < j
       /\ log[i].ok
       /\ ~log[j].ok
       /\ log[j].price # NoPrice

\* C8: a sell_stock that goes through puts is_hold = false, sell_price and
\* current_price = the quote just fetched on that row alone and adds
\* quote x number_shares to users.cash; one that fails, as it does without a
\* quote, leaves the table and the cash as they were.
SellRealizesMark ==
    [][ (pc = "sell" /\ Len(log') = Len(log) + 1) =>
          LET e == log'[Len(log')]
              tid == holdings[idx]
          IN /\ e.price = NoPrice => ~e.ok
             /\ IF e.ok
                THEN /\ tbl' = [tbl EXCEPT ![tid] =
                               [@ EXCEPT !.is_hold = FALSE, !.sell_price = e.price,
                                         !.current_price = e.price]]
                     /\ tbl[tid].is_hold
                     /\ cash' = cash + e.price * tbl[tid].number_shares
                ELSE tbl' = tbl /\ cash' = cash ]_vars

\* a position was sold at a quote other than its last refreshed price
SoldAtNewQuote ==
    /\ pc = "sell"
    /\ idx > 1
    /\ Len(log) > 0
    /\ log[Len(log)].ok
    /\ cash # INITIAL_CASH * CentsPerUnit
    /\ ~tbl[holdings[idx - 1]].is_hold
    /\ tbl[holdings[idx - 1]].sell_price \notin {tbl[holdings[idx - 1]].buy_price, NoPrice}

\* C9: a step that changes users.cash is a sell_stock or a buy_stock that
\* went through.
CashOnlyByTrades ==
    [][ cash' # cash => (Len(log') = Len(log) + 1 /\ log'[Len(log')].ok) ]_vars

\* a cycle returned early after the price refresh moved the price of a
\* held row
EarlyReturnAfterRefresh ==
    /\ pc = "exit"
    /\ outcome \in {"no_file", "no_signal"}
    /\ \E k \in 1..Len(tbl) : tbl[k].is_hold /\ tbl[k].current_price # tbl[k].buy_price

\* C10: when run_trading_cycle returns, users.stock is the sum of
\* current_price x number_shares over the held rows.
StockValueCurrent ==
    pc = "exit" => stock = SumAmount(tbl, IsHeld(tbl))

\* older than the freshness timeout, or not there at all
Stale(age) == age < 0 \/ age > FILE_TIMEOUT_MINUTES * 60

StaleFilesSellPositions ==
    ( /\ pc = "exit"
      /\ file_age # NoAges
      /\ file_age.outlier > FILE_TIMEOUT_MINUTES * 60
      /\ file_age.volume > FILE_TIMEOUT_MINUTES * 60 )
    => IsHeld(tbl) = {}

\* ------------------------------------------------------------------------
\* The taxonomy as the specification tables it: option kind, direction of
\* the stock, direction of the option price, direction of the primary
\* delta, label.
\* ------------------------------------------------------------------------
Ran(variant) == emitted.variant = variant
Delta(r) == r.new - r.old
Significant(r) == Delta(r) > SignificantOiChange \/ Delta(r) < -SignificantOiChange
StockDirs(r) ==
    {d \in {"up", "down"} :
        IF d = "up" THEN r.stock_change > StockThreshold
        ELSE r.stock_change < -StockThreshold}
OptionDirs(r, relaxed) ==
    {d \in {"up", "down"} :
        IF d = "up" THEN r.option_change > OptionThreshold \/ (relaxed /\ r.option_change >= 0)
        ELSE r.option_change < -OptionThreshold \/ (relaxed /\ r.option_change <= 0)}
DeltaDirs(r) ==
    {d \in {"up", "down"} : IF d = "up" THEN r.new > r.old ELSE r.new < r.old}
Over(r, minimum) ==
    (IF r.new > r.old THEN r.new - r.old ELSE r.old - r.new) * r.last_price * 100 > minimum
OiTaxonomy ==
    {<<"CALL", "up", "up", "up", OI1>>, <<"CALL", "down", "down", "up", OI2>>,
     <<"CALL", "up", "up", "down", OI3>>, <<"CALL", "down", "down", "down", OI4>>,
     <<"PUT", "down", "up", "up", OI5>>, <<"PUT", "up", "down", "up", OI6>>,
     <<"PUT", "down", "up", "down", OI7>>, <<"PUT", "up", "down", "down", OI8>>}
Rows(taxonomy, r, relaxed) ==
    {t \in taxonomy : /\ t[1] = r.option_type
                      /\ t[2] \in StockDirs(r)
                      /\ t[3] \in OptionDirs(r, relaxed)
                      /\ t[4] \in DeltaDirs(r)}

\* C13: in the open-interest variant a record over the notional threshold
\* gets the label the taxonomy gives for its option kind and its three
\* directions, and is dropped when the taxonomy has no row for them (flat
\* stock, flat option, zero OI delta, or a combination that is not listed).
OiTaxonomyFollowed ==
    (Ran("oi") /\ Over(contract, THRESHOLD_5M)) =>
        IF Rows(OiTaxonomy, contract, Significant(contract)) = {}
        THEN emitted.signal_type = NoSignal
        ELSE \E t \in Rows(OiTaxonomy, contract, Significant(contract)) :
                 emitted.signal_type = t[5]

ShortCallCoverEmitted ==
    /\ Ran("oi")
    /\ emitted.signal_type = OI3
    /\ contract.stock_change > StockThreshold
    /\ contract.new < contract.old

VolumeTaxonomy ==
    {<<"CALL", "up", "up", "up", VOL1>>, <<"CALL", "up", "down", "up", VOL2>>,
     <<"CALL", "down", "up", "up", VOL3>>, <<"CALL", "down", "down", "up", VOL4>>,
     <<"PUT", "down", "up", "up", VOL5>>, <<"PUT", "down", "down", "up", VOL6>>,
     <<"PUT", "up", "up", "up", VOL7>>, <<"PUT", "up", "down", "up", VOL8>>}
Combos(taxonomy) == {<<t[1], t[2], t[3], t[4]>> : t \in taxonomy}
\* the record passes every filter the volume variant has before it
\* classifies: minimum volume, minimum increase, minimum notional, and the
\* market-cap ratio of a contract that had no volume
Kept(r) ==
    /\ r.new > MIN_VOLUME
    /\ (r.old = 0 \/ (r.new - r.old) * 100 > MIN_VOLUME_INCREASE_PCT * r.old)
    /\ Over(r, MIN_AMOUNT_THRESHOLD)
    /\ ~(r.old = 0 /\ r.market_cap > 0
           /\ (r.new - r.old) * r.last_price * 100 <= r.market_cap)

\* C14 (as the specification states it): the volume variant emits a signal
\* for exactly the eight (option kind, stock direction, option direction,
\* delta direction) combinations of the open-interest variant and for no
\* other combination.
VolumeCombosAsOi ==
    (Ran("volume") /\ Kept(contract)) =>
        (emitted.signal_type # NoSignal <=> Rows(OiTaxonomy, contract, FALSE) # {})

\* C14 (amended): a record the volume filters keep gets a label for each of
\* the eight combinations of option kind, stock up or down and option up or
\* down with the volume up, and no label otherwise; only four of these
\* combinations are combinations of the open-interest variant, which also
\* labels four combinations with the delta down.
VolumeTaxonomyFollowed ==
    /\ Cardinality(Combos(VolumeTaxonomy) \cap Combos(OiTaxonomy)) = 4
    /\ (Ran("volume") /\ Kept(contract)) =>
           IF Rows(VolumeTaxonomy, contract, FALSE) = {}
           THEN emitted.signal_type = NoSignal
           ELSE \E t \in Rows(VolumeTaxonomy, contract, FALSE) :
                    emitted.signal_type = t[5]
    /\ (Ran("volume") /\ ~Over(contract, MIN_AMOUNT_THRESHOLD)) =>
           emitted.signal_type = NoSignal

SellCallEmitted ==
    /\ Ran("volume")
    /\ emitted.signal_type = VOL2
    /\ contract.option_type = "CALL"
    /\ contract.stock_change > StockThreshold
    /\ contract.option_change < -OptionThreshold
    /\ contract.new > contract.old

\* C15: classification is deterministic and total.  For every record at
\* most one branch of either if / elif chain has a true test (also when a
\* significant delta makes the relaxed option-up and option-down tests both
\* true at an option change of 0), so the record gets exactly one outcome,
\* a label of its variant or no signal, and classifying the same record
\* again gives the record already emitted.
ClassifyDeterministicTotal ==
    /\ Cardinality(Matching(OiBranches(contract))) <= 1
    /\ Cardinality(Matching(VolumeBranches(contract))) <= 1
    /\ Ran("oi") =>
          /\ emitted.signal_type \in OILabels \cup {NoSignal}
          /\ emitted = ComputeOutliersRow(contract)
    /\ Ran("volume") =>
          /\ emitted.signal_type \in VolumeLabels \cup {NoSignal}
          /\ emitted = ComputeVolumeOutliersRow(contract)

BothOptionTestsTrue ==
    /\ Ran("oi")
    /\ contract.option_change = 0
    /\ Significant(contract)
    /\ OptionUpOi(contract.option_change, Delta(contract))
    /\ OptionDownOi(contract.option_change, Delta(contract))
    /\ emitted.signal_type \in OILabels

OnStockBoundary(r) == r.stock_change = StockThreshold \/ r.stock_change = -StockThreshold
OnOptionBoundary(r) == r.option_change = OptionThreshold \/ r.option_change = -OptionThreshold

\* C16 (as the specification states it): a record whose stock change is
\* exactly +1% or -1%, or whose option price change is exactly +5% or -5%,
\* gets no signal.
BoundaryGetsNoSignal ==
    (emitted # NotRun /\ (OnStockBoundary(contract) \/ OnOptionBoundary(contract))) =>
        emitted.signal_type = NoSignal

\* C16 (amended): a stock change of exactly +1% or -1% is flat in both
\* variants and the record gets no signal; an option price change of
\* exactly +5% or -5% is flat, and the record gets no signal, in the volume
\* variant and in the open-interest variant when |oiDelta| <= 1000.  With
\* |oiDelta| > 1000 the relaxed tests take +5% as up and -5% as down.
BoundaryFlatUnlessRelaxed ==
    /\ (emitted # NotRun /\ OnStockBoundary(contract)) =>
           emitted.signal_type = NoSignal
    /\ (Ran("volume") /\ OnOptionBoundary(contract)) =>
           emitted.signal_type = NoSignal
    /\ (Ran("oi") /\ OnOptionBoundary(contract) /\ ~Significant(contract)) =>
           emitted.signal_type = NoSignal

StockOnBoundaryDropped ==
    /\ Ran("oi")
    /\ contract.stock_change = StockThreshold
    /\ contract.option_type = "CALL"
    /\ contract.option_change > OptionThreshold
    /\ contract.new > contract.old
    /\ Over(contract, THRESHOLD_5M)
    /\ emitted.signal_type = NoSignal

\* the option direction the taxonomy asks of a record of this kind with
\* this stock direction and this delta direction
NeededOptionDirs(r) ==
    {t[3] : t \in {u \in OiTaxonomy : /\ u[1] = r.option_type
                                        /\ u[2] \in StockDirs(r)
                                        /\ u[4] \in DeltaDirs(r)}}

\* C17: in the open-interest variant, with |oiDelta| > 1000 the option-up
\* test is optionPriceChange >= 0 and the option-down test is
\* optionPriceChange <= 0; with |oiDelta| <= 1000, exactly 1000 included,
\* the option price has to leave the 5% band.
RelaxedOnlyWhenSignificant ==
    (Ran("oi") /\ Over(contract, THRESHOLD_5M)) =>
        (emitted.signal_type # NoSignal <=>
            \/ /\ "up" \in NeededOptionDirs(contract)
               /\ IF Delta(contract) > 1000 \/ Delta(contract) < -1000
                  THEN contract.option_change >= 0
                  ELSE contract.option_change > OptionThreshold
            \/ /\ "down" \in NeededOptionDirs(contract)
               /\ IF Delta(contract) > 1000 \/ Delta(contract) < -1000
                  THEN contract.option_change <= 0
                  ELSE contract.option_change < -OptionThreshold)

ThousandNeedsBand ==
    /\ Ran("oi")
    /\ Delta(contract) = SignificantOiChange
    /\ Over(contract, THRESHOLD_5M)
    /\ contract.option_type = "CALL"
    /\ contract.stock_change > StockThreshold
    /\ contract.option_change = OptionThreshold
    /\ emitted.signal_type = NoSignal

NotionalAmount(r) ==
    (IF r.new > r.old THEN r.new - r.old ELSE r.old - r.new) * r.last_price * 100
MinimumOf(variant) == IF variant = "oi" THEN THRESHOLD_5M ELSE MIN_AMOUNT_THRESHOLD

NotionalIsDeltaTimesPrice ==
    (emitted # NotRun /\ emitted.signal_type # NoSignal) =>
        /\ emitted.amount_threshold = NotionalAmount(contract)
        /\ emitted.amount_threshold >= 0

EmittedOnFallingOi ==
    /\ Ran("oi")
    /\ emitted.signal_type # NoSignal
    /\ contract.new < contract.old
    /\ emitted.amount_threshold = (contract.old - contract.new) * contract.last_price * 100
    /\ emitted.amount_threshold > 0

TierRank(tier) ==
    IF tier = "<=5M" THEN 1
    ELSE IF tier = "5M-10M" THEN 2
    ELSE IF tier = "10M-50M" THEN 3
    ELSE IF tier = ">50M" THEN 4
    ELSE 0
TierOf(x) ==
    IF x <= 5000000 THEN "<=5M"
    ELSE IF x <= 10000000 THEN "5M-10M"
    ELSE IF x <= 50000000 THEN "10M-50M"
    ELSE ">50M"
TierProbes ==
    {0, 1, 4999999, 5000000, 5000001, 9999999, 10000000, 10000001,
     49999999, 50000000, 50000001}

\* C20: the tier is a total, monotonic step function of the notional
\* amount: up to 5,000,000 '<=5M', up to 10,000,000 '5M-10M', up to
\* 50,000,000 '10M-50M', above that '>50M'; a larger amount never gets a
\* lower tier and each boundary value belongs to the lower tier.
TierMonotonicStep ==
    (emitted # NotRun /\ emitted.signal_type # NoSignal) =>
        LET amounts == TierProbes \cup {emitted.amount_threshold}
        IN /\ emitted.amount_tier = TierOf(emitted.amount_threshold)
           /\ \A x \in amounts : /\ AmountTier(x) = TierOf(x)
                                  /\ TierRank(AmountTier(x)) > 0
           /\ \A x, y \in amounts :
                  x <= y => TierRank(AmountTier(x)) <= TierRank(AmountTier(y))

BoundaryInLowerTier ==
    /\ Ran("oi")
    /\ emitted.signal_type # NoSignal
    /\ emitted.amount_threshold = THRESHOLD_10M
    /\ emitted.amount_tier = "5M-10M"

\* C21: a volume record whose old volume is 0 is emitted only if its
\* notional amount divided by the market cap of its symbol is greater than
\* the ratio (1 / 100000), and is dropped when the market cap is unknown
\* (absent from the file, which the merge turns into 0, or 0).
MarketCapGateRejectsUnknown ==
    (Ran("volume") /\ contract.old = 0 /\ emitted.signal_type # NoSignal) =>
        /\ contract.market_cap > 0
        /\ NotionalAmount(contract) > contract.market_cap

\* C22: when the two files have different dates the volume of the older
\* file counts as 0 for every contract, so that volume_change is
\* volume_new, and volume_change_pct is 100 when volume_old is 0 and
\* volume_new is greater than 0.
CrossDayOldVolumeIsZero ==
    (Ran("volume") /\ contract # NoContract /\ snapshots.is_cross_day) =>
        /\ contract.volume_change = snapshots.new
        /\ (snapshots.new > 0) =>
               contract.volume_change_pct = [num |-> 100, den |-> 1]

\* C23: an unresolved price is a change of 0.  The option price change is
\* 0 when the old option price is 0, whatever the new price; the stock
\* change is 0 when the old close is 0 or the symbol has no paired stock
\* row; so such a row is in no branch that asks for an option or a stock
\* direction.
UnresolvedPriceIsZeroChange ==
    (emitted # NotRun /\ contract # NoContract) =>
        /\ snapshots.lastPrice_old = 0 =>
               /\ contract.option_change = 0
               /\ emitted.signal_type = NoSignal
        /\ (snapshots.close_old = 0 \/ ~snapshots.stock_latest \/ ~snapshots.stock_prev) =>
               /\ contract.stock_change = 0
               /\ emitted.signal_type = NoSignal

\* C28: the writers join on contractSymbol.  A record is emitted only for a
\* contract both the newer and the older file have; a contract only one of
\* them has is dropped.
EmittedOnlyWhenInBoth ==
    emitted # NotRun =>
        /\ emitted.signal_type # NoSignal =>
               (snapshots.in_latest /\ snapshots.in_prev)
        /\ ~(snapshots.in_latest /\ snapshots.in_prev) =>
               (contract = NoContract /\ emitted = Dropped(emitted.variant))

OnlyInNewerDropped ==
    /\ Ran("volume")
    /\ snapshots.in_latest /\ ~snapshots.in_prev
    /\ emitted.signal_type = NoSignal
    /\ ComputeVolumeOutliersRow(MergedVolume(snapshots)).signal_type # NoSignal

\* C24: a run of the writer saves the complete classified set or aborts
\* with a reason.  When a required column is missing from an option or a
\* stock file, or a paired stock file is absent, the run aborts before
\* anything is saved; what is saved is never a part of the classified set.
CompleteOrAborted ==
    writer # NotStarted =>
        /\ writer.saved # {} =>
               (writer.pc = "saved" /\ writer.defect = "none"
                /\ writer.saved = writer.rows)
        /\ writer.defect # "none" =>
               (writer.saved = {} /\ writer.pc \in {"find", "load", "compute", "aborted"})
        /\ writer.pc = "aborted" =>
               (writer.reason \in {"FileNotFoundError", "KeyError"} /\ writer.saved = {})

AbortedOnMissingColumn ==
    /\ writer.pc = "aborted"
    /\ writer.defect = "stock_column"
    /\ writer.reason = "KeyError"
    /\ writer.rows # {}
    /\ writer.saved = {}

\* C25: the insert stage is idempotent.  However often it runs on the same
\* outlier file, and whatever status an earlier run recorded, the table
\* holds at most one row for each contract of the file.
InsertStageIdempotent ==
    \A c \in FileContracts :
        Cardinality({r \in volume_outlier : r.contractSymbol = c}) <= 1

\* buy_amount, rounded up to a cent
BuyAmountCeil == (total_value * BUY_RATIO_NUM + BUY_RATIO_DEN - 1) \div BUY_RATIO_DEN

BuysNothing(price) ==
    price = NoPrice \/ total_value * BUY_RATIO_NUM < BUY_RATIO_DEN * price

\* C27: a buy with no quote, or with a quote that buys no whole share,
\* changes nothing: no row is added, no row changes, the cash stays, and
\* the buy loop goes on to the next symbol.
BuyWithoutSharesIsNoOp ==
    [][(pc = "buy" /\ Len(log') = Len(log) + 1 /\ BuysNothing(log'[Len(log')].price)) =>
          /\ ~log'[Len(log')].ok
          /\ tbl' = tbl
          /\ cash' = cash
          /\ stock' = stock
          /\ pc' = "buy"
          /\ idx' = idx + 1]_vars

BoughtAfterNoOp ==
    /\ Len(log) = 2
    /\ log[1].op = "buy" /\ log[1].price = PriceHuge /\ ~log[1].ok
    /\ total_value * BUY_RATIO_NUM < BUY_RATIO_DEN * PriceHuge
    /\ log[2].op = "buy" /\ log[2].ok
    /\ Len(tbl) = 1

Submitted == 1..Len(futures)

Settled(st) == {i \in Submitted : futures[i].state = st}

Succeeded == {i \in Settled("collected") : futures[i].result.success}

AllRows == CombinedDf(all_options_data)

Occurrences(r) == Cardinality({k \in 1..Len(AllRows) : AllRows[k] = r})

\* C29: whatever the workers return and in whatever order they finish,
\* every collected symbol is counted once, as succeeded or failed; each
\* row of a succeeded symbol is in the combined snapshot once and no
\* row of any other symbol is in it; a failure never leaves the scan
\* without a next step, and at most max_workers symbols are in flight.
FailuresIsolatedAndCounted ==
    /\ successful_scans + failed_scans = Cardinality(Settled("collected"))
    /\ successful_scans = Cardinality(Succeeded)
    /\ Cardinality(Settled("running")) <= max_workers
    /\ \A i \in Submitted, c \in 1..2 :
         Occurrences([symbol |-> futures[i].symbol, contractSymbol |-> c])
           = IF i \in Succeeded THEN 1 ELSE 0
    /\ Len(AllRows) = 2 * Cardinality(Succeeded)
    /\ (futures # NoFutures /\ Settled("collected") # Submitted) =>
           \/ Settled("done") # {}
           \/ Settled("running") # {}
           \/ Settled("pending") # {}

OneFailedOthersSucceeded ==
    /\ Len(futures) = MaxStocks
    /\ Settled("collected") = Submitted
    /\ futures[1].result.raised
    /\ \A i \in Submitted \ {1} : futures[i].result.success
    /\ successful_scans = MaxStocks - 1
    /\ failed_scans = 1
    /\ all_options_data[1][1].symbol = futures[MaxStocks].symbol

PreBuyCash == INITIAL_CASH * CentsPerUnit

Bought == Len(log) >= 1 /\ log[1].op = "buy" /\ log[1].ok

SoldAtSameQuote ==
    /\ Bought
    /\ Len(log) = 2 /\ log[2].op = "sell" /\ log[2].ok
    /\ log[2].quote = log[1].quote

\* C30: a successful buy takes the whole buy amount from the cash and
\* leaves a position worth floor(buy_amount / price) * price, so the
\* account is never worth more after the buy than before it; selling the
\* position at the same quote brings the cash back to at most what it
\* was before the buy, and to exactly that only when the buy amount is a
\* whole multiple of the price.
RoundTripNeverGains ==
    /\ (Bought /\ Len(log) = 1) =>
          /\ (PreBuyCash - cash) * 10 = log[1].buy_amount
          /\ tbl[1].current_price * tbl[1].number_shares * 10
                = (log[1].buy_amount \div log[1].quote) * log[1].quote
          /\ cash + tbl[1].current_price * tbl[1].number_shares <= PreBuyCash
    /\ SoldAtSameQuote =>
          /\ cash <= PreBuyCash
          /\ cash = PreBuyCash <=> log[1].buy_amount % log[1].quote = 0
====
